---- MODULE Spec2Model ----
(***************************************************************************)
(* Model of deeprecs/models/ncf.py: the NCF recommender object.            *)
(*                                                                         *)
(* State: the constructor arguments, whether CUDA is available, the        *)
(* attributes the instance holds, and the outcome of the last call.        *)
(* Tensors are modelled by their shapes, a loss by the index of the batch  *)
(* it was computed for, a ranking by the position of the true item in it.  *)
(* An exception is an outcome: its type and the source line raising it.    *)
(***************************************************************************)
EXTENDS Integers, Sequences, FiniteSets, TLC

\* ------------------------------------------------------------------ bounds
MaxCount == 2
MaxFactor == 2
MaxLayers == 2
MaxLayerSize == 2
MaxBatch == 2
MaxBatches == 2
MaxCalls == 2

\* ------------------------------------------------------------------ inputs
\* The model tags the docstring lists.
DocumentedTags == {"MLP", "GMF", "NMF", "NMF-pretrained"}

\* The tags the code compares self.model with.
CodeTags == {"NeuMF-pretrained", "GMP", "MLP"}

ModelTags == DocumentedTags \cup CodeTags

\* device argument: None (the default), or a device string.
Devices == {"None", "cpu", "cuda"}

\* `layers: List` has no element type.  `int` is the builtin integer, whose
\* true division yields a float; `exact` is an integer type (a subclass of
\* int) whose true division yields an integer whenever the quotient is one.
NumKinds == {"int", "exact"}

SeqsUpTo(n, S) == UNION {[1..k -> S] : k \in 0..n}

\* layers: None (the default) or a list of sizes of one numeric kind.  The
\* learning rate is left out of the arguments: it is stored and handed to the
\* optimizer, and no statement of the class depends on its value.
LayerArgs ==
    {[isNone |-> TRUE, kind |-> "int", list |-> <<>>]}
    \cup {[isNone |-> FALSE, kind |-> k, list |-> l] :
             k \in NumKinds, l \in SeqsUpTo(MaxLayers, 1..MaxLayerSize)}

Args ==
    [num_users : 1..MaxCount, num_items : 1..MaxCount, model : ModelTags,
     num_factor : 1..MaxFactor, layers : LayerArgs, device : Devices]

\* ------------------------------------------------------------------ values
\* x / 2 on a layer size: [type, num, den], the value being num/den.
TrueDiv(kind, x) ==
    IF kind = "exact" /\ x % 2 = 0
    THEN [type |-> "int", num |-> x \div 2, den |-> 1]
    ELSE [type |-> "float", num |-> x, den |-> 2]

NoTable == [rows |-> 0, dim |-> 0]

TableNames == {"embed_user_gmf", "embed_item_gmf", "embed_user_mlp", "embed_item_mlp"}

\* deeprecs.models.base.BaseRecommender: a torch module (it is called, put in
\* train and eval mode, asked for its parameters) that sets no attribute of
\* its own on the instance.
BaseAttrs == {}

\* The instance after super().__init__() and the plain assignments.
StoreArgs(a) ==
    [attrs |-> BaseAttrs \cup
               {"num_users", "num_items", "model", "num_factor", "layers", "lr"},
     num_users |-> a.num_users, num_items |-> a.num_items, model |-> a.model,
     num_factor |-> a.num_factor, layers |-> a.layers,
     embed |-> [t \in TableNames |-> NoTable],
     fc_layers |-> <<>>, affine_in |-> 0, optimizer |-> "none",
     device |-> "unset", devide |-> "unset", initialised |-> FALSE,
     training |-> TRUE]

\* No instance yet.
NoSelf ==
    [attrs |-> {}, num_users |-> 0, num_items |-> 0, model |-> "none",
     num_factor |-> 0, layers |-> [isNone |-> TRUE, kind |-> "int", list |-> <<>>],
     embed |-> [t \in TableNames |-> NoTable],
     fc_layers |-> <<>>, affine_in |-> 0, optimizer |-> "none",
     device |-> "unset", devide |-> "unset", initialised |-> FALSE,
     training |-> TRUE]

SetAttr(s, name) == [s EXCEPT !.attrs = @ \cup {name}]

Raise(s, e, ln) == [self |-> s, exc |-> e, line |-> ln]

Return(s) == [self |-> s, exc |-> "none", line |-> 0]

\* ------------------------------------------------------------------ __init__
\* self.embed_user_gmf, self.embed_item_gmf
EmbedGmf(s) ==
    [SetAttr(SetAttr(s, "embed_user_gmf"), "embed_item_gmf") EXCEPT
        !.embed["embed_user_gmf"] = [rows |-> s.num_users, dim |-> s.num_factor],
        !.embed["embed_item_gmf"] = [rows |-> s.num_items, dim |-> s.num_factor]]

\* EmbedMlp with the two row counts exchanged.
EmbedMlpSwapped(s, d) ==
    [SetAttr(SetAttr(s, "embed_user_mlp"), "embed_item_mlp") EXCEPT
        !.embed["embed_user_mlp"] = [rows |-> s.num_items, dim |-> d],
        !.embed["embed_item_mlp"] = [rows |-> s.num_users, dim |-> d]]

\* self.embed_user_mlp, self.embed_item_mlp, for an integer dimension d
EmbedMlp(s, d) ==
    [SetAttr(SetAttr(s, "embed_user_mlp"), "embed_item_mlp") EXCEPT
        !.embed["embed_user_mlp"] = [rows |-> s.num_users, dim |-> d],
        !.embed["embed_item_mlp"] = [rows |-> s.num_items, dim |-> d]]

Linear(in, out) == [type |-> "Linear", in |-> in, out |-> out]

ReLU == [type |-> "ReLU", in |-> 0, out |-> 0]

\* The ModuleList built from zip(layers[:-1], layers[1:]).
RECURSIVE FcLayers(_, _)
FcLayers(l, i) ==
    IF i >= Len(l) THEN <<>>
    ELSE <<Linear(l[i], l[i + 1]), ReLU>> \o FcLayers(l, i + 1)

BuildFcLayers(s) ==
    [SetAttr(s, "fc_layers") EXCEPT !.fc_layers = FcLayers(s.layers.list, 1)]

\* self.affine_output (and the logistic and the loss function)
BuildOutput(s) ==
    [SetAttr(SetAttr(SetAttr(s, "affine_output"), "logistic"), "loss_func") EXCEPT
        !.affine_in = s.layers.list[Len(s.layers.list)] + s.num_factor]

SelectOptimizer(s) ==
    [SetAttr(s, "optimizer") EXCEPT
        !.optimizer = IF s.model = "NeuMF-pretrained" THEN "SGD" ELSE "Adam"]

\* The test that guards the assignment of the device attribute.
DeviceTest(device, cudaAvail) == ~(device # "cuda" \/ cudaAvail)

StoreDevice(s, device) == [SetAttr(s, "devide") EXCEPT !.devide = device]

_init_weight(s) ==
    IF s.model # "NeuMF-pretrained" THEN [s EXCEPT !.initialised = TRUE] ELSE s

NCF_init(a, cudaAvail) ==
    LET s1 == EmbedGmf(StoreArgs(a)) IN
    IF a.layers.isNone THEN Raise(s1, "TypeError", 61)
    ELSE IF Len(a.layers.list) = 0 THEN Raise(s1, "IndexError", 61)
    ELSE LET d == TrueDiv(a.layers.kind, a.layers.list[1]) IN
         IF d.type # "int" THEN Raise(s1, "TypeError", 61)
         ELSE LET s5 == SelectOptimizer(BuildOutput(BuildFcLayers(EmbedMlp(s1, d.num)))) IN
              IF DeviceTest(a.device, cudaAvail)
              THEN Return(_init_weight(StoreDevice(s5, a.device)))
              ELSE Raise(s5, "RuntimeError", 85)

\* ------------------------------------------------------------------ forward
\* The width self.fc_layers[i..] turns width w into; -1 when a Linear layer
\* is given a width other than its in_features.
RECURSIVE ApplyFc(_, _, _)
ApplyFc(fc, i, w) ==
    IF i > Len(fc) THEN w
    ELSE IF fc[i].type = "ReLU" THEN ApplyFc(fc, i + 1, w)
    ELSE IF fc[i].in # w THEN -1
    ELSE ApplyFc(fc, i + 1, fc[i].out)

\* torch.mul of two [n, a] and [n, b] tensors: the width, -1 when they do
\* not broadcast.
MulWidth(a, b) ==
    IF a = b THEN a ELSE IF a = 1 THEN b ELSE IF b = 1 THEN a ELSE -1

Failed(e, ln) ==
    [exc |-> e, line |-> ln, len |-> 0, branch |-> "none", width |-> 0]

\* self(user_ind, item_ind) for two batches of n in-range indices.
forward(s, n) ==
    IF "embed_user_gmf" \notin s.attrs THEN Failed("AttributeError", 113)
    ELSE IF "embed_item_gmf" \notin s.attrs THEN Failed("AttributeError", 114)
    ELSE IF "embed_user_mlp" \notin s.attrs THEN Failed("AttributeError", 115)
    ELSE IF "embed_item_mlp" \notin s.attrs THEN Failed("AttributeError", 116)
    ELSE
    LET mlp_in == s.embed["embed_user_mlp"].dim + s.embed["embed_item_mlp"].dim
        gmf_vector == MulWidth(s.embed["embed_user_gmf"].dim,
                               s.embed["embed_item_gmf"].dim)
        mlp_vector == ApplyFc(s.fc_layers, 1, mlp_in)
        branch == IF s.model = "GMP" THEN "gmf"
                  ELSE IF s.model = "MLP" THEN "mlp"
                  ELSE "concat"
        concat_vector == IF branch = "gmf" THEN gmf_vector
                         ELSE IF branch = "mlp" THEN mlp_vector
                         ELSE mlp_vector + gmf_vector
    IN  IF gmf_vector = -1 THEN Failed("RuntimeError", 120)
        ELSE IF mlp_vector = -1 THEN Failed("RuntimeError", 123)
        ELSE IF branch = "mlp" /\ "MLP_layers" \notin s.attrs
             THEN Failed("AttributeError", 129)
        ELSE IF concat_vector # s.affine_in
             THEN [Failed("RuntimeError", 134) EXCEPT
                      !.branch = branch, !.width = concat_vector]
        ELSE [exc |-> "none", line |-> 0, len |-> n * 1,
              branch |-> branch, width |-> concat_vector]

\* ------------------------------------------------------------------ fit
Ev(name, b) == [ev |-> name, b |-> b, target |-> "none"]

To(name, b, dev) == [ev |-> name, b |-> b, target |-> dev]

\* The loop of _train_one_epoch from batch i on, and its return statement.
\* loader[i] is the number of rows of batch i; loss is the batch whose loss
\* the local variable holds (0: unbound).
RECURSIVE TrainFrom(_, _, _, _, _)
TrainFrom(s, loader, i, lg, loss) ==
    IF i > Len(loader)
    THEN IF loss = 0
         THEN [exc |-> "UnboundLocalError", line |-> 183, log |-> lg, loss |-> 0]
         ELSE [exc |-> "AttributeError", line |-> 183, log |-> lg, loss |-> loss]
    ELSE IF "device" \notin s.attrs
    THEN [exc |-> "AttributeError", line |-> 174, log |-> lg, loss |-> loss]
    ELSE
    LET moved == lg \o <<To("to_user", i, s.device), To("to_item", i, s.device),
                        To("to_label", i, s.device), Ev("zero_grad", i)>>
        f == forward(s, loader[i])
    IN  IF f.exc # "none"
        THEN [exc |-> f.exc, line |-> f.line, log |-> moved, loss |-> loss]
        ELSE TrainFrom(s, loader, i + 1,
                       moved \o <<Ev("forward", i), Ev("loss", i),
                                  Ev("backward", i), Ev("step", i)>>, i)

_train_one_epoch(s, loader, lg) == TrainFrom(s, loader, 1, lg, 0)

fit(s, loader) == _train_one_epoch(s, loader, <<Ev("ng_sample", 0)>>)

\* ------------------------------------------------------------------ evaluate
\* A held-out sample: n candidate items, the first being the true item, and
\* rank, the place (from 1) of the true item when the candidates are put in
\* descending order of the scores the model gives them.
Samples == UNION {[n : {c}, rank : 1..c] : c \in 1..MaxBatch}

\* deeprecs.utils.metrics.hit: 1 when the true item is among pred_items.
hit(rank, top_k) == IF rank <= top_k THEN 1 ELSE 0

\* deeprecs.utils.metrics.ndcg: the gain 1/log2(rank + 1) of the true item at
\* place rank of pred_items, given by that place; 0 when it is not among them.
ndcg(rank, top_k) == IF rank <= top_k THEN rank ELSE 0

EvalRaise(e, ln, lg) ==
    [exc |-> e, line |-> ln, log |-> lg, nan |-> FALSE, hits |-> 0, ranks |-> <<>>]

\* The loop of evaluate from sample i on, and np.mean of the two lists.
RECURSIVE EvalFrom(_, _, _, _, _, _, _)
EvalFrom(s, loader, top_k, i, lg, HR, NDCG) ==
    IF i > Len(loader)
    THEN [exc |-> "none", line |-> 0, log |-> lg, nan |-> (Len(loader) = 0),
          hits |-> HR, ranks |-> NDCG]
    ELSE IF "device" \notin s.attrs THEN EvalRaise("AttributeError", 154, lg)
    ELSE
    LET moved == lg \o <<To("to_user", i, s.device), To("to_item", i, s.device)>>
        y_pred == forward(s, loader[i].n)
    IN  IF y_pred.exc # "none" THEN EvalRaise(y_pred.exc, y_pred.line, moved)
        ELSE IF top_k > y_pred.len THEN EvalRaise("RuntimeError", 158, moved)
        ELSE EvalFrom(s, loader, top_k, i + 1, moved \o <<Ev("forward", i)>>,
                      HR + hit(loader[i].rank, top_k),
                      Append(NDCG, ndcg(loader[i].rank, top_k)))

evaluate(s, loader, top_k) == EvalFrom(s, loader, top_k, 1, <<>>, 0, <<>>)

\* ------------------------------------------------------------------ state
VARIABLES args, cuda, pc, self, last, log, calls

vars == <<args, cuda, pc, self, last, log, calls>>

NoCall ==
    [op |-> "none", exc |-> "none", line |-> 0, n |-> 0, len |-> 0,
     branch |-> "none", width |-> 0, loss |-> 0,
     nan |-> FALSE, hits |-> 0, ranks |-> <<>>]

Init ==
    /\ args \in Args
    /\ cuda \in BOOLEAN
    /\ pc = "new"
    /\ self = NoSelf
    /\ last = NoCall
    /\ log = <<>>
    /\ calls = 0

\* m = NCF(num_users, num_items, model, num_factor, layers, lr, device)
Construct ==
    /\ pc = "new"
    /\ LET r == NCF_init(args, cuda) IN
       /\ self' = r.self
       /\ last' = [NoCall EXCEPT !.op = "__init__", !.exc = r.exc, !.line = r.line]
       /\ pc' = IF r.exc = "none" THEN "constructed" ELSE "failed"
    /\ UNCHANGED <<args, cuda, log, calls>>

\* y = m(user_ind, item_ind)
CallForward ==
    /\ pc = "constructed" /\ calls < MaxCalls
    /\ \E n \in 0..MaxBatch :
         LET r == forward(self, n) IN
         last' = [NoCall EXCEPT !.op = "forward", !.exc = r.exc, !.line = r.line,
                                !.n = n, !.len = r.len, !.branch = r.branch,
                                !.width = r.width]
    /\ log' = <<>>
    /\ calls' = calls + 1
    /\ UNCHANGED <<args, cuda, pc, self>>

\* loss = m.fit(train_loader)
CallFit ==
    /\ pc = "constructed" /\ calls < MaxCalls
    /\ \E loader \in SeqsUpTo(MaxBatches, 1..MaxBatch) :
         LET r == fit([self EXCEPT !.training = TRUE], loader) IN
         /\ last' = [NoCall EXCEPT !.op = "fit", !.exc = r.exc, !.line = r.line,
                                   !.n = Len(loader), !.loss = r.loss]
         /\ log' = r.log
    /\ self' = [self EXCEPT !.training = TRUE]
    /\ calls' = calls + 1
    /\ UNCHANGED <<args, cuda, pc>>

\* hr, ndcg = m.evaluate(test_loader, top_k)
CallEvaluate ==
    /\ pc = "constructed" /\ calls < MaxCalls
    /\ \E loader \in SeqsUpTo(MaxBatches, Samples), top_k \in 1..MaxBatch :
         LET r == evaluate([self EXCEPT !.training = FALSE], loader, top_k) IN
         /\ last' = [NoCall EXCEPT !.op = "evaluate", !.exc = r.exc, !.line = r.line,
                                   !.n = Len(loader), !.nan = r.nan,
                                   !.hits = r.hits, !.ranks = r.ranks]
         /\ log' = r.log
    /\ self' = [self EXCEPT !.training = FALSE]
    /\ calls' = calls + 1
    /\ UNCHANGED <<args, cuda, pc>>

\* m.predict(): the body is a docstring, the call returns None.
CallPredict ==
    /\ pc = "constructed" /\ calls < MaxCalls
    /\ last' = [NoCall EXCEPT !.op = "predict"]
    /\ log' = <<>>
    /\ calls' = calls + 1
    /\ UNCHANGED <<args, cuda, pc, self>>

Next ==
    \/ Construct
    \/ CallForward
    \/ CallFit
    \/ CallEvaluate
    \/ CallPredict

Spec == Init /\ [][Next]_vars
\* ------------------------------------------------------------------ claims
Incompatible == args.device = "cuda" /\ ~cuda

\* The constructor has run up to its test of the device argument.
ReachedDeviceTest == pc # "new" /\ "optimizer" \in self.attrs

\* C1: construction raises a RuntimeError exactly when the device argument is
\* "cuda" and CUDA is unavailable, and completes for every other combination
\* (stated for the constructions that reach the test of the device).
C1_RuntimeErrorIffIncompatible ==
    ReachedDeviceTest =>
        /\ Incompatible <=> (pc = "failed" /\ last.exc = "RuntimeError")
        /\ ~Incompatible => pc = "constructed"

\* C2: for each documented tag, forward on two batches of n in-range indices
\* completes and returns one value per pair.
C2_ForwardOnePerPair ==
    (last.op = "forward" /\ args.model \in DocumentedTags) =>
        (last.exc = "none" /\ last.len = last.n)

Steps(lg) ==
    SelectSeq(lg, LAMBDA e : e.ev \in {"ng_sample", "zero_grad", "forward",
                                       "loss", "backward", "step"})

RECURSIVE BatchSteps(_, _)
BatchSteps(b, nb) ==
    IF b > nb THEN <<>>
    ELSE <<Ev("zero_grad", b), Ev("forward", b), Ev("loss", b),
           Ev("backward", b), Ev("step", b)>> \o BatchSteps(b + 1, nb)

\* C3: a call of fit resamples the negatives once, before the first batch,
\* and then, for each batch in loader order, zeroes the gradients, predicts,
\* computes the loss, back-propagates and steps the optimizer.
C3_FitStepOrder ==
    last.op = "fit" =>
        Steps(log) = <<Ev("ng_sample", 0)>> \o BatchSteps(1, last.n)

\* C4: for a loader of at least one batch, fit returns the loss computed for
\* the last batch.
C4_FitReturnsLastLoss ==
    (last.op = "fit" /\ last.n >= 1) => (last.exc = "none" /\ last.loss = last.n)

\* C5: evaluate processes every sample and returns the mean hit rate and the
\* mean NDCG over them, the hit rate being the fraction of samples whose true
\* item is among the top_k, both within [0, 1].
C5_EvaluateMeans ==
    (last.op = "evaluate" /\ last.n >= 1) =>
        /\ last.exc = "none"
        /\ ~last.nan
        /\ Len(last.ranks) = last.n
        /\ last.hits = Cardinality({i \in 1..Len(last.ranks) : last.ranks[i] > 0})
        /\ last.hits <= last.n

\* C6: the optimizer is SGD for the tag NMF-pretrained and Adam for MLP, GMF
\* and NMF, and the weights are initialised for all but NMF-pretrained.
C6_OptimizerByTag ==
    (pc = "constructed" /\ args.model \in DocumentedTags) =>
        /\ self.optimizer = IF args.model = "NMF-pretrained" THEN "SGD" ELSE "Adam"
        /\ self.initialised <=> args.model # "NMF-pretrained"

\* C7: after construction and after any calls of fit, evaluate and predict,
\* the two user tables have num_users rows and the two item tables num_items.
C7_TableRows ==
    pc = "constructed" =>
        /\ TableNames \subseteq self.attrs
        /\ self.embed["embed_user_gmf"].rows = args.num_users
        /\ self.embed["embed_user_mlp"].rows = args.num_users
        /\ self.embed["embed_item_gmf"].rows = args.num_items
        /\ self.embed["embed_item_mlp"].rows = args.num_items

C7_Witness ==
    /\ pc = "constructed"
    /\ calls = MaxCalls
    /\ last.op = "fit"
    /\ args.num_users # args.num_items

\* C8: the vector given to the output head is the GMF product for GMF, the
\* output of the linear stack for MLP and their concatenation for NMF and
\* NMF-pretrained, and its width is the in_features of the head.
C8_HeadInputByTag ==
    (last.op = "forward" /\ args.model \in DocumentedTags) =>
        /\ last.branch = CASE args.model = "GMF" -> "gmf"
                           [] args.model = "MLP" -> "mlp"
                           [] OTHER -> "concat"
        /\ last.width = self.affine_in

LinearAt(fc, i) == fc[2 * i - 1]

\* C9: for a list of L >= 1 positive integers the MLP tables have the integer
\* dimension layers[0]/2, the stack is L-1 Linear layers each followed by an
\* activation, Linear i maps layers[i] to layers[i+1], and the concatenated
\* MLP embeddings have width layers[0], so that the stack ends at layers[-1]
\* (stated for the lists of builtin integers whose first size is even).
C9_MlpShapes ==
    (/\ pc # "new" /\ ~args.layers.isNone /\ args.layers.kind = "int"
     /\ Len(args.layers.list) >= 1 /\ args.layers.list[1] % 2 = 0) =>
        LET l == args.layers.list
            in0 == self.embed["embed_user_mlp"].dim + self.embed["embed_item_mlp"].dim
        IN  /\ {"embed_user_mlp", "embed_item_mlp"} \subseteq self.attrs
            /\ 2 * self.embed["embed_user_mlp"].dim = l[1]
            /\ 2 * self.embed["embed_item_mlp"].dim = l[1]
            /\ Len(self.fc_layers) = 2 * (Len(l) - 1)
            /\ \A i \in 1..(Len(l) - 1) :
                   /\ LinearAt(self.fc_layers, i) = Linear(l[i], l[i + 1])
                   /\ self.fc_layers[2 * i] = ReLU
            /\ in0 = l[1]
            /\ ApplyFc(self.fc_layers, 1, in0) = l[Len(l)]

Transfers(lg, b) ==
    SelectSeq(lg, LAMBDA e : e.b = b /\ e.ev \in {"to_user", "to_item", "to_label"})

\* C10: on a model constructed with device d, fit and evaluate move the
\* tensors of each batch to d before the forward computation, reading the
\* attribute the constructor wrote.
C10_TransfersToStoredDevice ==
    (pc = "constructed" /\ last.op \in {"fit", "evaluate"} /\ last.n >= 1) =>
        /\ "device" \in self.attrs
        /\ Len(Transfers(log, 1)) >= 2
        /\ \A j \in 1..Len(log) :
               log[j].ev \in {"to_user", "to_item", "to_label"} =>
                   /\ log[j].target = args.device
                   /\ \A k \in 1..(j - 1) :
                          ~(log[k].ev = "forward" /\ log[k].b = log[j].b)
====
